---- MODULE Spec2Model ----
(***************************************************************************)
(* Model of the Data Maturity Survey (src/main.py), a Streamlit script.    *)
(*                                                                         *)
(* Streamlit executes the script top to bottom once per respondent action  *)
(* (and once more whenever the script asks for it with st.rerun()).  The   *)
(* state that survives from one execution to the next is st.session_state  *)
(* and the values held by the widgets; everything else is recomputed.      *)
(* One action of the model is one execution of the script, triggered by    *)
(* one respondent event (or by a queued rerun).                            *)
(*                                                                         *)
(* Texts are abbreviated to ASCII; the emoji prefixes of the tier names    *)
(* and of the messages are dropped.                                        *)
(***************************************************************************)
EXTENDS Integers, Sequences, FiniteSets, TLC

VARIABLES
    started,      \* st.session_state.started
    name,         \* st.session_state.name
    email,        \* st.session_state.email
    industry,     \* st.session_state.industry
    turnover,     \* st.session_state.turnover
    step,         \* st.session_state.step
    responses,    \* st.session_state.responses
    selected,     \* value of the radio widget keyed f"q{step}"
    interest,     \* value of the workshop radio widget
    sheet,        \* rows of the Google sheet, in append order
    mails,        \* notifications accepted by Mailjet (status 200)
    rerun,        \* the last execution ended in st.rerun()
    view,         \* what the last execution put on the page
    ev            \* the event that triggered the last execution

vars == <<started, name, email, industry, turnover, step, responses,
          selected, interest, sheet, mails, rerun, view, ev>>

session == <<started, name, email, industry, turnover, step, responses>>

----------------------------------------------------------------------------
(* Bounds of the model *)

\* Rows the sheet may hold before the model stops issuing appends.
MaxRows == 3

\* Values the respondent types or picks in the intake widgets.
Names      == {"", "Ann"}
Emails     == {"", "ann@corp.example"}
Industries == {"", "Technology"}
Turnovers  == {"", "< $1M"}

\* The modelled respondent considers every option of the first MaxFree
\* questions and the lowest or the highest option of the later ones, which
\* keeps every total from N to 4N and every tier boundary reachable.
MaxFree == 3

\* A radio value that is no option of any question.
NoOption == "<not an option>"

----------------------------------------------------------------------------
(* The catalog *)

Opt(label, score) == [label |-> label, score |-> score]

survey_questions == <<
    [domain   |-> "Strategy & Leadership",
     question |-> "Does your organisation have a documented, reviewed data strategy?",
     options  |-> << Opt("No strategy at all", 1),
                     Opt("Informal ideas but nothing documented", 2),
                     Opt("A documented strategy exists but isn't well used", 3),
                     Opt("We have a clear, reviewed data strategy aligned to business goals", 4) >>],
    [domain   |-> "People & Skills",
     question |-> "How would you rate your team's data literacy and confidence?",
     options  |-> << Opt("Most people are uncomfortable with data", 1),
                     Opt("Some people are learning, but skills are patchy", 2),
                     Opt("Teams can interpret dashboards, but not build them", 3),
                     Opt("Teams are confident using data tools and making decisions", 4) >>],
    [domain   |-> "Tools & Infrastructure",
     question |-> "What best describes your data infrastructure?",
     options  |-> << Opt("Data is stored in spreadsheets and scattered systems", 1),
                     Opt("We have some cloud tools but no integration", 2),
                     Opt("We use a centralised data platform (e.g. data warehouse)", 3),
                     Opt("Our tools are integrated, scalable, and automated", 4) >>],
    [domain   |-> "Governance & Compliance",
     question |-> "How do you manage data access, quality, and compliance?",
     options  |-> << Opt("No formal policies", 1),
                     Opt("Some access rules, but not enforced", 2),
                     Opt("Defined ownership and some monitoring", 3),
                     Opt("Strong governance with audits, monitoring, and training", 4) >>],
    [domain   |-> "Culture & Adoption",
     question |-> "How ingrained is data-driven thinking in your organisation?",
     options  |-> << Opt("Gut feel drives most decisions", 1),
                     Opt("Some teams use data occasionally", 2),
                     Opt("Data informs key decisions across functions", 3),
                     Opt("Data is the foundation for strategy and daily ops", 4) >>],
    [domain   |-> "Measurement & Performance",
     question |-> "How do you measure and communicate business performance?",
     options  |-> << Opt("Little or no tracking", 1),
                     Opt("Basic dashboards/reports", 2),
                     Opt("Regular reporting but not action-oriented", 3),
                     Opt("Clear KPIs tracked in real time and discussed weekly", 4) >>],
    [domain   |-> "Innovation Readiness",
     question |-> "Are you leveraging AI, automation, or predictive analytics?",
     options  |-> << Opt("Not at all", 1),
                     Opt("It's on our radar", 2),
                     Opt("We're running experiments", 3),
                     Opt("We actively use smart tools for decision support", 4) >> ]
>>

\* len(survey_questions)
N == Len(survey_questions)

\* survey_questions[i], with Python's 0-based index
Question(i) == survey_questions[i + 1]

\* [opt[0] for opt in q["options"]]
Labels(q) == { q.options[k].label : k \in DOMAIN q.options }

\* st.radio's initial value: the first option
DefaultLabel(i) == IF i < N THEN Question(i).options[1].label ELSE ""

\* the options of question i that the modelled respondent picks among
Picks(i) ==
    LET o == Question(i).options
    IN  IF i < MaxFree THEN Labels(Question(i)) ELSE { o[1].label, o[Len(o)].label }

----------------------------------------------------------------------------
(* Pure helpers of the script *)

\* a gate that forgets the two selectboxes
AllFilledNameEmail(n, e, i, t) == n # "" /\ e # ""

\* Python truthiness of all([name, email, industry, turnover])
AllFilled(n, e, i, t) == n # "" /\ e # "" /\ i # "" /\ t # ""

\* guards that test one of the two fields only
IdentityGivenNameOnly(n, e) == n # ""

IdentityGivenEmailOnly(n, e) == e # ""

\* the guard of the Request Workshop handler: "if name and email"
IdentityGiven(n, e) == n # "" /\ e # ""

\* selected in dict(q["options"]): whether the lookup finds a key
HasOption(q, label) == label \in Labels(q)

\* a lookup that always returns the first option's score
ScoreOfFirst(q, label) == q.options[1].score

\* dict(q["options"])[selected]: a later pair with the same label wins
ScoreOf(q, label) ==
    LET ks == { k \in DOMAIN q.options : q.options[k].label = label }
        last == CHOOSE k \in ks : \A j \in ks : j <= k
    IN  q.options[last].score

\* an answer that records the first option's label whatever was selected
ResponseFirstLabel(q, label) ==
    [domain |-> q.domain, question |-> q.question, answer |-> q.options[1].label,
     score |-> ScoreOf(q, label)]

\* the dict appended to st.session_state.responses
Response(q, label) ==
    [domain |-> q.domain, question |-> q.question, answer |-> label,
     score |-> ScoreOf(q, label)]

RECURSIVE SumScores(_)
\* df["score"].sum()
SumScores(resp) ==
    IF resp = << >> THEN 0 ELSE resp[1].score + SumScores(Tail(resp))

\* the rows of df whose domain is d
OfDomain(resp, d) == SelectSeq(resp, LAMBDA r : r.domain = d)

\* .count() in place of .sum()
DomainScoresCount(resp) ==
    [ d \in { resp[k].domain : k \in DOMAIN resp } |-> Len(OfDomain(resp, d)) ]

\* df.groupby("domain")["score"].sum()
DomainScores(resp) ==
    [ d \in { resp[k].domain : k \in DOMAIN resp } |-> SumScores(OfDomain(resp, d)) ]

\* the chain with "<" where the script has "<="
ClassifyStrict(total_score) ==
    IF total_score < 8 THEN
        [tier |-> "Early Stage", recommendation |-> "audit data sources"]
    ELSE IF total_score < 13 THEN
        [tier |-> "Foundational", recommendation |-> "align data strategy"]
    ELSE IF total_score < 17 THEN
        [tier |-> "Emerging Leader", recommendation |-> "consolidate customer data"]
    ELSE
        [tier |-> "Data-Driven Pro", recommendation |-> "explore advanced automation"]

\* the if/elif chain that determines tier and recommendation
Classify(total_score) ==
    IF total_score <= 8 THEN
        [tier |-> "Early Stage", recommendation |-> "audit data sources"]
    ELSE IF total_score <= 13 THEN
        [tier |-> "Foundational", recommendation |-> "align data strategy"]
    ELSE IF total_score <= 17 THEN
        [tier |-> "Emerging Leader", recommendation |-> "consolidate customer data"]
    ELSE
        [tier |-> "Data-Driven Pro", recommendation |-> "explore advanced automation"]

\* what the results branch derives from st.session_state.responses
Result(resp) ==
    LET total_score == SumScores(resp)
        c == Classify(total_score)
    IN  [domain_scores |-> DomainScores(resp), total_score |-> total_score,
         tier |-> c.tier, recommendation |-> c.recommendation]

NoResult ==
    [domain_scores |-> << >>, total_score |-> 0, tier |-> "", recommendation |-> ""]

RECURSIVE Pairs(_)
\* for r in responses: row.append(r["question"]); row.append(r["answer"])
Pairs(resp) ==
    IF resp = << >> THEN << >>
    ELSE << resp[1].question, resp[1].answer >> \o Pairs(Tail(resp))

\* the row saved by the Start Survey handler
PartialRow(n, e, i, t) == << n, e, i, t, "", "" >>

\* a row with the first two cells exchanged
CompletionRowSwapped(n, e, i, t, res, resp) ==
    << e, n, i, t, res.total_score, res.tier >> \o Pairs(resp)

\* the row saved by the Request Workshop handler
CompletionRow(n, e, i, t, res, resp) ==
    << n, e, i, t, res.total_score, res.tier >> \o Pairs(resp)

\* a client that repeats the append
append_row_twice(rows, row) == Append(Append(rows, row), row)

\* sheet.append_row(row): one call, one row at the end of the sheet
append_row(rows, row) == Append(rows, row)

\* what send_mailjet_email interpolates into the message
Mail(n, e, score, tier) == [name |-> n, email |-> e, score |-> score, tier |-> tier]

----------------------------------------------------------------------------
(* Pages and events *)

\* The page an execution produced: the branch that rendered, the step the
\* question widgets were keyed with, the buttons drawn, the message boxes
\* (an exception the script does not catch is shown by Streamlit as an
\* exception box and ends the execution), and the displayed result.
View(page, key, widgets, msgs, res) ==
    [page |-> page, key |-> key, widgets |-> widgets, msgs |-> msgs, result |-> res]

BtnStart   == "button: Start Survey"
BtnNext    == "button: Next"
BtnRequest == "button: Request Workshop"

MsgIncomplete == "warning: Please complete all fields to begin."
MsgComplete   == "success: Survey complete!"
MsgThanks     == "success: Thanks! We'll reach out to you shortly."
MsgNoIdentity == "error: Please enter your name and email."
MsgMailSent   == "success: Email notification sent"
MsgMailError  == "error: Mailjet error"
MsgException  == "exception"

Event(kind, field, value) ==
    [kind |-> kind, field |-> field, value |-> value, storage |-> "none", mail |-> "none"]

\* outcomes of sheet.append_row and of the Mailjet call
StorageOutcomes == {"ok", "fail"}
MailOutcomes    == {"200", "error status", "raised"}

----------------------------------------------------------------------------
(* The script, one execution at a time.  e is the respondent event that    *)
(* triggered the execution; so and mo are the outcomes the collaborators    *)
(* give if the execution reaches their calls.                              *)

\* a handler that forgets "st.session_state.started = True"
StartHandlerNotStarted(so) ==
    [started |-> FALSE, saved |-> so = "ok", raised |-> so # "ok"]

\* a handler that saves the row first and sets started afterwards
StartHandlerSaveFirst(so) ==
    [started |-> so = "ok", saved |-> so = "ok", raised |-> so # "ok"]

\* lines 183-196, the Start Survey handler: started is set before the row
\* is saved, so it stays set when append_row raises
StartHandler(so) ==
    [started |-> TRUE, saved |-> so = "ok", raised |-> so # "ok"]

\* a handler that appends the answer before it looks the score up
NextHandlerAppendFirst(q, sel, resp, s) ==
    IF HasOption(q, sel)
    THEN [raised |-> FALSE, responses |-> Append(resp, Response(q, sel)), step |-> s + 1]
    ELSE [raised |-> TRUE,
          responses |-> Append(resp, [domain |-> q.domain, question |-> q.question,
                                      answer |-> sel, score |-> 0]),
          step |-> s]

\* a handler that only advances while another question follows
NextHandlerLastIgnored(q, sel, resp, s) ==
    IF HasOption(q, sel)
    THEN IF s + 1 < N
         THEN [raised |-> FALSE, responses |-> Append(resp, Response(q, sel)), step |-> s + 1]
         ELSE [raised |-> FALSE, responses |-> resp, step |-> s]
    ELSE [raised |-> TRUE, responses |-> resp, step |-> s]

\* a handler that forgets "st.session_state.step += 1"
NextHandlerKeepStep(q, sel, resp, s) ==
    IF HasOption(q, sel)
    THEN [raised |-> FALSE, responses |-> Append(resp, Response(q, sel)), step |-> s]
    ELSE [raised |-> TRUE, responses |-> resp, step |-> s]

\* lines 211-219, the Next handler: the dict lookup comes first, and a
\* label that is no key raises KeyError before anything is stored
NextHandler(q, sel, resp, s) ==
    IF HasOption(q, sel)
    THEN [raised |-> FALSE, responses |-> Append(resp, Response(q, sel)), step |-> s + 1]
    ELSE [raised |-> TRUE, responses |-> resp, step |-> s]

\* a notifier that says nothing when Mailjet refuses the message
send_mailjet_email_silent(mo) ==
    CASE mo = "200" -> {MsgMailSent}
      [] mo = "error status" -> {}
      [] OTHER -> {MsgException}

\* send_mailjet_email: the boxes it leaves on the page.  A status other
\* than 200 is reported with st.error; an exception of the request itself
\* is not caught
send_mailjet_email(mo) ==
    CASE mo = "200" -> {MsgMailSent}
      [] mo = "error status" -> {MsgMailError}
      [] OTHER -> {MsgException}

\* the value a text_input or selectbox of the intake form returns
Widget(e, field, current) ==
    IF e.kind = "edit" /\ e.field = field THEN e.value ELSE current

\* lines 169-202: if not st.session_state.started
IntakeBlock(e, so) ==
    /\ name' = Widget(e, "name", name)
    /\ email' = Widget(e, "email", email)
    /\ industry' = Widget(e, "industry", industry)
    /\ turnover' = Widget(e, "turnover", turnover)
    /\ IF AllFilled(name', email', industry', turnover')
       THEN IF e.kind = "start"
            THEN /\ started' = StartHandler(so).started
                 /\ IF StartHandler(so).saved
                    THEN /\ sheet' = append_row(sheet, PartialRow(name', email', industry', turnover'))
                         /\ rerun' = TRUE
                         /\ view' = View("intake", step, {BtnStart}, {}, NoResult)
                    ELSE \* append_row raises: the execution ends before st.rerun()
                         /\ sheet' = sheet
                         /\ rerun' = FALSE
                         /\ view' = View("intake", step, {BtnStart}, {MsgException}, NoResult)
                 /\ ev' = [e EXCEPT !.storage = so]
            ELSE \* st.rerun() stands outside "if st.button": it runs on every pass
                 /\ started' = started
                 /\ sheet' = sheet
                 /\ rerun' = TRUE
                 /\ view' = View("intake", step, {BtnStart}, {}, NoResult)
                 /\ ev' = e
       ELSE /\ started' = started
            /\ sheet' = sheet
            /\ rerun' = FALSE
            /\ view' = View("intake", step, {}, {MsgIncomplete}, NoResult)
            /\ ev' = e
    /\ UNCHANGED <<step, responses, selected, interest, mails>>

\* a survey flow that reads the intake widgets on every page
QuestionBlockWithIntake(e) ==
    LET q == Question(step)
        sel == IF e.kind = "select" THEN e.value ELSE selected
        h == NextHandler(q, sel, responses, step)
    IN  /\ name' = Widget(e, "name", name)
        /\ email' = Widget(e, "email", email)
        /\ industry' = Widget(e, "industry", industry)
        /\ turnover' = Widget(e, "turnover", turnover)
        /\ IF e.kind = "next"
           THEN /\ responses' = h.responses
                /\ step' = h.step
                /\ IF ~h.raised
                   THEN /\ selected' = DefaultLabel(step')
                        /\ rerun' = TRUE
                        /\ view' = View("question", step, {BtnNext}, {}, NoResult)
                   ELSE /\ selected' = sel
                        /\ rerun' = FALSE
                        /\ view' = View("question", step, {BtnNext}, {MsgException}, NoResult)
           ELSE /\ UNCHANGED <<responses, step>>
                /\ selected' = sel
                /\ rerun' = FALSE
                /\ view' = View("question", step, {BtnNext}, {}, NoResult)
        /\ ev' = e
        /\ UNCHANGED <<started, interest, sheet, mails>>

\* lines 207-220: if st.session_state.step < len(survey_questions)
QuestionBlock(e) ==
    LET q == Question(step)
        sel == IF e.kind = "select" THEN e.value ELSE selected
        h == NextHandler(q, sel, responses, step)
    IN  /\ IF e.kind = "next"
           THEN /\ responses' = h.responses
                /\ step' = h.step
                /\ IF ~h.raised
                   THEN /\ selected' = DefaultLabel(step')
                        /\ rerun' = TRUE
                        /\ view' = View("question", step, {BtnNext}, {}, NoResult)
                   ELSE \* the execution ends with the exception box
                        /\ selected' = sel
                        /\ rerun' = FALSE
                        /\ view' = View("question", step, {BtnNext}, {MsgException}, NoResult)
           ELSE /\ UNCHANGED <<responses, step>>
                /\ selected' = sel
                /\ rerun' = FALSE
                /\ view' = View("question", step, {BtnNext}, {}, NoResult)
        /\ ev' = e
        /\ UNCHANGED <<started, name, email, industry, turnover, interest, sheet, mails>>

\* a results branch that sends the notification before it saves the row
ResultsBlockMailFirst(e, so, mo) ==
    LET res == Result(responses)
        int == IF e.kind = "interest" THEN e.value ELSE interest
        btn == IF int = "Yes" THEN {BtnRequest} ELSE {}
        row == CompletionRow(name, email, industry, turnover, res, responses)
    IN  /\ interest' = int
        /\ rerun' = FALSE
        /\ IF int = "Yes" /\ e.kind = "request"
           THEN IF IdentityGiven(name, email)
                THEN /\ mails' = IF mo = "200"
                                 THEN Append(mails, Mail(name, email, res.total_score, res.tier))
                                 ELSE mails
                     /\ IF mo = "raised"
                        THEN /\ sheet' = sheet
                             /\ view' = View("results", step, btn,
                                             {MsgComplete, MsgThanks, MsgException}, res)
                             /\ ev' = [e EXCEPT !.mail = mo]
                        ELSE /\ sheet' = IF so = "ok" THEN append_row(sheet, row) ELSE sheet
                             /\ view' = View("results", step, btn,
                                             {MsgComplete, MsgThanks} \cup send_mailjet_email(mo)
                                               \cup (IF so = "ok" THEN {} ELSE {MsgException}),
                                             res)
                             /\ ev' = [e EXCEPT !.storage = so, !.mail = mo]
                ELSE /\ UNCHANGED <<sheet, mails>>
                     /\ view' = View("results", step, btn, {MsgComplete, MsgNoIdentity}, res)
                     /\ ev' = e
           ELSE /\ UNCHANGED <<sheet, mails>>
                /\ view' = View("results", step, btn, {MsgComplete}, res)
                /\ ev' = e
        /\ UNCHANGED <<started, name, email, industry, turnover, step, responses, selected>>

\* a results branch that starts the survey over once the request is saved
ResultsBlockRestart(e, so, mo) ==
    LET res == Result(responses)
        int == IF e.kind = "interest" THEN e.value ELSE interest
        btn == IF int = "Yes" THEN {BtnRequest} ELSE {}
        row == CompletionRow(name, email, industry, turnover, res, responses)
    IN  /\ interest' = int
        /\ rerun' = FALSE
        /\ IF int = "Yes" /\ e.kind = "request"
           THEN IF IdentityGiven(name, email)
                THEN IF so = "ok"
                     THEN /\ sheet' = append_row(sheet, row)
                          /\ mails' = IF mo = "200"
                                      THEN Append(mails, Mail(name, email, res.total_score, res.tier))
                                      ELSE mails
                          /\ view' = View("results", step, btn,
                                          {MsgComplete, MsgThanks} \cup send_mailjet_email(mo),
                                          res)
                          /\ ev' = [e EXCEPT !.storage = so, !.mail = mo]
                          /\ step' = 0
                          /\ responses' = << >>
                          /\ selected' = DefaultLabel(0)
                     ELSE /\ UNCHANGED <<sheet, mails, step, responses, selected>>
                          /\ view' = View("results", step, btn,
                                          {MsgComplete, MsgThanks, MsgException}, res)
                          /\ ev' = [e EXCEPT !.storage = so]
                ELSE /\ UNCHANGED <<sheet, mails, step, responses, selected>>
                     /\ view' = View("results", step, btn, {MsgComplete, MsgNoIdentity}, res)
                     /\ ev' = e
           ELSE /\ UNCHANGED <<sheet, mails, step, responses, selected>>
                /\ view' = View("results", step, btn, {MsgComplete}, res)
                /\ ev' = e
        /\ UNCHANGED <<started, name, email, industry, turnover>>

\* lines 223-298: the results branch
ResultsBlock(e, so, mo) ==
    LET res == Result(responses)
        int == IF e.kind = "interest" THEN e.value ELSE interest
        btn == IF int = "Yes" THEN {BtnRequest} ELSE {}
        row == CompletionRow(name, email, industry, turnover, res, responses)
    IN  /\ interest' = int
        /\ rerun' = FALSE
        /\ IF int = "Yes" /\ e.kind = "request"
           THEN IF IdentityGiven(name, email)
                THEN IF so = "ok"
                     THEN /\ sheet' = append_row(sheet, row)
                          /\ mails' = IF mo = "200"
                                      THEN Append(mails, Mail(name, email, res.total_score, res.tier))
                                      ELSE mails
                          /\ view' = View("results", step, btn,
                                          {MsgComplete, MsgThanks} \cup send_mailjet_email(mo),
                                          res)
                          /\ ev' = [e EXCEPT !.storage = so, !.mail = mo]
                     ELSE \* append_row raises: the execution ends there
                          /\ UNCHANGED <<sheet, mails>>
                          /\ view' = View("results", step, btn,
                                          {MsgComplete, MsgThanks, MsgException}, res)
                          /\ ev' = [e EXCEPT !.storage = so]
                ELSE /\ UNCHANGED <<sheet, mails>>
                     /\ view' = View("results", step, btn, {MsgComplete, MsgNoIdentity}, res)
                     /\ ev' = e
           ELSE /\ UNCHANGED <<sheet, mails>>
                /\ view' = View("results", step, btn, {MsgComplete}, res)
                /\ ev' = e
        /\ UNCHANGED <<started, name, email, industry, turnover, step, responses, selected>>

\* a script that shows the results one question early
BranchOneEarly ==
    IF ~started THEN "intake" ELSE IF step < N - 1 THEN "question" ELSE "results"

\* the branch of the script that the session state selects
Branch == IF ~started THEN "intake" ELSE IF step < N THEN "question" ELSE "results"

\* one execution of the script
Script(e, so, mo) ==
    CASE Branch = "intake" -> IntakeBlock(e, so)
      [] Branch = "question" -> QuestionBlock(e)
      [] OTHER -> ResultsBlock(e, so, mo)

\* the page on screen was drawn by the branch the next execution will take,
\* so its widgets exist in that execution and their events reach it
Live == view.page = Branch /\ view.key = step

----------------------------------------------------------------------------
(* Respondent events *)

\* the respondent changes one field of the intake form
EditIdentity ==
    /\ Live /\ ~started
    /\ \E f \in {"name", "email", "industry", "turnover"} :
         \E v \in (CASE f = "name" -> Names [] f = "email" -> Emails
                     [] f = "industry" -> Industries [] OTHER -> Turnovers) :
            \E so \in StorageOutcomes : Script(Event("edit", f, v), so, "200")

\* the respondent presses "Start Survey"
StartSurvey ==
    /\ Live /\ BtnStart \in view.widgets
    /\ Len(sheet) < MaxRows
    /\ \E so \in StorageOutcomes : Script(Event("start", "", ""), so, "200")

\* the respondent picks an option of the current question
SelectOption ==
    /\ Live /\ ~rerun /\ BtnNext \in view.widgets
    /\ \E l \in Picks(step) : Script(Event("select", "radio", l), "ok", "200")

\* the respondent presses "Next"
ClickNext ==
    /\ Live /\ ~rerun /\ BtnNext \in view.widgets
    /\ Script(Event("next", "", ""), "ok", "200")

\* the respondent answers the workshop question
SetInterest ==
    /\ Live /\ ~rerun /\ view.page = "results"
    /\ \E v \in {"Yes", "No"} : Script(Event("interest", "radio", v), "ok", "200")

\* the respondent presses "Request Workshop"
RequestWorkshop ==
    /\ Live /\ ~rerun /\ BtnRequest \in view.widgets
    /\ Len(sheet) < MaxRows
    /\ \E so \in StorageOutcomes, mo \in MailOutcomes :
          Script(Event("request", "", ""), so, mo)

\* the respondent presses a "Next" button that is still on screen after the
\* session has moved on: no button of this execution carries its key
\* f"next{step}", so st.button returns False everywhere
StaleNext ==
    /\ ~Live /\ BtnNext \in view.widgets
    /\ Script(Event("stale next", "", ""), "ok", "200")

\* the respondent changes a field of an intake form that is still on screen
\* after started was set (the Start Survey execution ended in an exception,
\* or its rerun has not run yet): the intake block is skipped, so no
\* execution reads the widget
StaleEdit ==
    /\ ~Live /\ started /\ view.page = "intake"
    /\ \E f \in {"name", "email", "industry", "turnover"} :
         \E v \in (CASE f = "name" -> Names [] f = "email" -> Emails
                     [] f = "industry" -> Industries [] OTHER -> Turnovers) :
            Script(Event("edit", f, v), "ok", "200")

\* a queued st.rerun(), or any interaction with a page whose widgets the
\* next execution does not draw: the script runs without an event
Rerun ==
    /\ rerun \/ ~Live
    /\ Script(Event("rerun", "", ""), "ok", "200")

Init ==
    /\ started = FALSE
    /\ name = "" /\ email = "" /\ industry = "" /\ turnover = ""
    /\ step = 0
    /\ responses = << >>
    /\ selected = DefaultLabel(0)
    /\ interest = "Yes"
    /\ sheet = << >>
    /\ mails = << >>
    /\ rerun = FALSE
    /\ view = View("intake", 0, {}, {MsgIncomplete}, NoResult)
    /\ ev = Event("rerun", "", "")

Next ==
    \/ EditIdentity
    \/ StartSurvey
    \/ SelectOption
    \/ ClickNext
    \/ SetInterest
    \/ RequestWorkshop
    \/ StaleNext
    \/ StaleEdit
    \/ Rerun

Spec == Init /\ [][Next]_vars

\* The respondent does not walk away from a question: a Next button that
\* stays pressable is pressed.  Streamlit runs every queued rerun, and a
\* respondent facing a page left by an interrupted execution interacts again.
FairSpec == Spec /\ WF_vars(ClickNext) /\ WF_vars(Rerun)

----------------------------------------------------------------------------
(* The handlers taken one by one.  st.session_state is an ambient store and *)
(* the handlers re-validate what they read from it, so they are also        *)
(* checked from session states that the intake gate and the radio widget    *)
(* would not let through: a started session, one question before the end    *)
(* or at the end, with any identity (empty fields included) and any radio   *)
(* value (NoOption included).                                               *)

\* the answers of the first len questions: option a for the first k of them,
\* option b for the others
Staircase(k, a, b, len) ==
    [ i \in 1..len |->
        LET q == Question(i - 1)
        IN  Response(q, q.options[IF i <= k THEN a ELSE b].label) ]

\* the page a plain execution draws for a session state
Page(st, n, e, i, t, s, resp) ==
    IF ~st
    THEN IF AllFilled(n, e, i, t)
         THEN View("intake", s, {BtnStart}, {}, NoResult)
         ELSE View("intake", s, {}, {MsgIncomplete}, NoResult)
    ELSE IF s < N
         THEN View("question", s, {BtnNext}, {}, NoResult)
         ELSE View("results", s, {BtnRequest}, {MsgComplete}, Result(resp))

HInit ==
    /\ started \in BOOLEAN
    /\ name \in Names /\ email \in Emails
    /\ industry \in Industries /\ turnover \in Turnovers
    /\ IF started
       THEN /\ step \in {N - 1, N}
            /\ \E k \in 0..N, a \in 1..4, b \in 1..4 : responses = Staircase(k, a, b, step)
            /\ selected \in (IF step < N THEN Labels(Question(step)) \cup {NoOption}
                             ELSE {DefaultLabel(step)})
       ELSE /\ step = 0
            /\ responses = << >>
            /\ selected = DefaultLabel(0)
    /\ interest = "Yes"
    /\ sheet = << >>
    /\ mails = << >>
    /\ rerun = (~started /\ AllFilled(name, email, industry, turnover))
    /\ view = Page(started, name, email, industry, turnover, step, responses)
    /\ ev = Event("rerun", "", "")

HandlerSpec == HInit /\ [][Next]_vars

----------------------------------------------------------------------------
(* Properties *)

\* the phases of a session
Intake     == ~started
InProgress == started /\ step < N
Complete   == started /\ step = N

\* the score the catalog gives to an option label of its i-th question
CatalogScore(i, label) ==
    LET o == survey_questions[i].options
    IN  o[CHOOSE k \in DOMAIN o : o[k].label = label].score

\* the option labels of the catalog's i-th question
CatalogLabels(i) ==
    { survey_questions[i].options[k].label : k \in DOMAIN survey_questions[i].options }

RECURSIVE ChosenSum(_)
\* the catalog scores of the labels recorded for the first i questions, added up
ChosenSum(i) ==
    IF i = 0 THEN 0 ELSE CatalogScore(i, responses[i].answer) + ChosenSum(i - 1)

RECURSIVE SumValues(_, _)
\* the values f takes on S, added up
SumValues(f, S) ==
    IF S = {} THEN 0
    ELSE LET d == CHOOSE x \in S : TRUE IN f[d] + SumValues(f, S \ {d})

CatalogDomains == { survey_questions[i].domain : i \in DOMAIN survey_questions }

\* C1: once all N questions are answered the cursor is N, and the total the
\* results page shows is the sum of the catalog scores of the chosen options.
Claim_C1 ==
    /\ Len(responses) = N => step = N
    /\ view.page = "results" =>
         /\ step = N
         /\ Len(responses) = N
         /\ \A i \in 1..N : responses[i].answer \in CatalogLabels(i)
         /\ view.result.total_score = ChosenSum(N)

Witness_C1 ==
    /\ view.page = "results"
    /\ Len(sheet) > 0 /\ Len(sheet[1]) = 6
    /\ responses[1].score = 3 /\ responses[2].score = 2 /\ responses[N].score = 4
    /\ view.result.total_score = 16

\* C2: the tier shown for a total is fixed by the bands <= 8, 9..13, 14..17
\* and >= 18, which cover N..4N; seven answers of score 1 give 7 and Early
\* Stage, seven of score 4 give 28 and Data-Driven Pro.
Claim_C2 ==
    view.page = "results" =>
        LET t == view.result.total_score
            tier == view.result.tier
        IN  /\ t \in N..(4 * N)
            /\ tier \in {"Early Stage", "Foundational", "Emerging Leader", "Data-Driven Pro"}
            /\ (tier = "Early Stage") = (t <= 8)
            /\ (tier = "Foundational") = (t \in 9..13)
            /\ (tier = "Emerging Leader") = (t \in 14..17)
            /\ (tier = "Data-Driven Pro") = (t >= 18)
            /\ (\A i \in 1..N : responses[i].score = 1) => (t = 7 /\ tier = "Early Stage")
            /\ (\A i \in 1..N : responses[i].score = 4) => (t = 28 /\ tier = "Data-Driven Pro")

Witness_C2 ==
    /\ view.page = "results"
    /\ Len(sheet) > 0 /\ Len(sheet[1]) = 6
    /\ view.result.total_score = 13
    /\ view.result.tier = "Foundational"

\* C3: pressing Next while the radio holds a label that is no option of the
\* current question leaves step and responses as they were and ends in an
\* error shown to the respondent.
Claim_C3 ==
    [][ (ev'.kind = "next" /\ InProgress /\ selected \notin CatalogLabels(step + 1))
          => /\ step' = step
             /\ responses' = responses
             /\ MsgException \in view'.msgs ]_vars

Witness_C3 ==
    /\ ev.kind = "next"
    /\ selected = NoOption
    /\ MsgException \in view.msgs
    /\ step = N - 1 /\ Len(responses) = N - 1

\* C4: step stays within 0..N, responses holds exactly step answers, and no
\* execution of the script lowers step.
Claim_C4 ==
    /\ [](step \in 0..N /\ Len(responses) = step)
    /\ [][step' >= step]_vars

Witness_C4 ==
    /\ step = N /\ Len(responses) = N
    /\ Len(sheet) > 0 /\ Len(sheet[1]) = 6
    /\ ev.kind = "request" /\ ev.storage = "fail"

\* C5: on the results page the per-domain scores add up to the total, and
\* the domains shown are exactly the N domains of the catalog.
Claim_C5 ==
    view.page = "results" =>
        LET ds == view.result.domain_scores
        IN  /\ Complete
            /\ SumValues(ds, DOMAIN ds) = view.result.total_score
            /\ DOMAIN ds = CatalogDomains
            /\ Cardinality(DOMAIN ds) = N

Witness_C5 ==
    /\ view.page = "results"
    /\ Len(sheet) > 0 /\ Len(sheet[1]) = 6
    /\ view.result.total_score = 20
    /\ view.result.domain_scores["Strategy & Leadership"] = 4
    /\ view.result.domain_scores["Innovation Readiness"] = 1

\* C6: started becomes true only in an execution in which all four identity
\* fields are non-empty and Start Survey was pressed; an execution of the
\* intake form with an empty field leaves started, step and responses alone,
\* shows the warning and appends nothing to the sheet.
Claim_C6 ==
    [][ /\ (~started /\ started')
            => /\ name' # "" /\ email' # "" /\ industry' # "" /\ turnover' # ""
               /\ ev'.kind = "start"
        /\ (~started /\ (name' = "" \/ email' = "" \/ industry' = "" \/ turnover' = ""))
            => /\ ~started'
               /\ step' = step
               /\ responses' = responses
               /\ sheet' = sheet
               /\ MsgIncomplete \in view'.msgs ]_vars

Witness_C6 ==
    /\ started /\ ev.kind = "start"
    /\ step = 0 /\ responses = << >>
    /\ view.page = "intake"
    /\ sheet = << << name, email, industry, turnover, "", "" >> >>

\* C7: Request Workshop pressed while email is empty shows the validation
\* error, appends no row and sends no notification.
Claim_C7 ==
    [][ (ev'.kind = "request" /\ email = "")
          => /\ MsgNoIdentity \in view'.msgs
             /\ sheet' = sheet
             /\ mails' = mails
             /\ ev'.storage = "none" /\ ev'.mail = "none" ]_vars

Witness_C7 ==
    /\ ev.kind = "request"
    /\ email = "" /\ name # ""
    /\ Complete
    /\ MsgNoIdentity \in view.msgs
    /\ sheet = << >> /\ mails = << >>

Claim_C9 ==
    [][ (ev'.kind = "request"
            /\ (ev'.storage = "fail" \/ ev'.mail \in {"error status", "raised"}))
          => /\ session' = session
             /\ Complete /\ Complete'
             /\ view'.page = "results"
             /\ view'.result = view.result
             /\ view'.result.total_score = ChosenSum(N)
             /\ (MsgException \in view'.msgs \/ MsgMailError \in view'.msgs)
             /\ BtnRequest \in view'.widgets ]_vars

Witness_C9 ==
    /\ ev.kind = "request" /\ ev.storage = "fail"
    /\ Complete
    /\ MsgException \in view.msgs
    /\ view.result.total_score = 19

\* C10: when append_row fails in the execution that Start Survey triggered,
\* started is true afterwards, the failure is on the page, and the next
\* execution draws the first question.
Claim_C10 ==
    /\ []( (ev.kind = "start" /\ ev.storage = "fail")
             => /\ started
                /\ MsgException \in view.msgs
                /\ ENABLED Rerun )
    /\ [][ (ev.kind = "start" /\ ev.storage = "fail")
             => /\ started'
                /\ view'.page = "question"
                /\ BtnNext \in view'.widgets ]_vars

Witness_C10 ==
    /\ ev.kind = "start" /\ ev.storage = "fail"
    /\ started
    /\ sheet = << >>
    /\ view.page = "intake"

\* C11: once step is N, no execution changes step or responses again, the
\* result on the results page stays the one first shown, and a press of a
\* Next button outside InProgress changes nothing.
Claim_C11 ==
    [][ /\ (step = N) => (step' = N /\ responses' = responses /\ started' = started)
        /\ (Complete /\ view.page = "results")
             => (view'.page = "results" /\ view'.result = view.result)
        /\ (ev'.kind = "stale next" /\ ~InProgress)
             => (session' = session /\ sheet' = sheet /\ mails' = mails) ]_vars

Witness_C11 ==
    /\ Complete
    /\ view.page = "results"
    /\ Len(sheet) = 2 /\ Len(sheet[1]) = 6 /\ Len(mails) = 1
    /\ ev.kind = "request" /\ ev.storage = "fail"

\* the rows of the sheet that a Request Workshop execution wrote
CompletionRows == SelectSeq(sheet, LAMBDA r : Len(r) = 6 + 2 * N)

\* C12: a Request Workshop execution whose collaborators both succeed adds
\* exactly one completion row and exactly one notification and queues no
\* further execution; rows and notifications come from nowhere else, so k
\* such requests leave k completion rows and k notifications.
Claim_C12 ==
    [][ /\ (ev'.kind = "request" /\ ev'.storage = "ok" /\ ev'.mail = "200")
             => /\ Len(sheet') = Len(sheet) + 1
                /\ SubSeq(sheet', 1, Len(sheet)) = sheet
                /\ Len(sheet'[Len(sheet')]) = 6 + 2 * N
                /\ Len(mails') = Len(mails) + 1
                /\ SubSeq(mails', 1, Len(mails)) = mails
                /\ ~rerun'
        /\ (mails' # mails)
             => (ev'.kind = "request" /\ ev'.storage = "ok" /\ ev'.mail = "200")
        /\ (sheet' # sheet)
             => \/ ev'.kind = "request" /\ ev'.storage = "ok"
                \/ ev'.kind = "start" /\ ev'.storage = "ok" ]_vars

Witness_C12 ==
    /\ Complete
    /\ ev.kind = "request" /\ ev.storage = "ok" /\ ev.mail = "200"
    /\ Len(sheet) = 3 /\ Len(sheet[1]) = 6
    /\ Len(CompletionRows) = 2
    /\ Len(mails) = 2
    /\ sheet[2] = sheet[3]

\* the tier of a total, by the bands of the specification
BandTier(t) ==
    CASE t <= 8 -> "Early Stage"
      [] t \in 9..13 -> "Foundational"
      [] t \in 14..17 -> "Emerging Leader"
      [] OTHER -> "Data-Driven Pro"

\* C13: every completion row is name, email, industry, turnover, total
\* score, tier and then the prompt and the chosen label of each of the N
\* questions in catalog order, with the identity of the partial-intake row;
\* every notification carries the same name, email, total score and tier.
Claim_C13 ==
    /\ \A k \in DOMAIN sheet :
         Len(sheet[k]) # 6 =>
            LET row == sheet[k]
            IN  /\ Complete
                /\ Len(row) = 6 + 2 * N
                /\ row[1] = name /\ row[2] = email
                /\ row[3] = industry /\ row[4] = turnover
                /\ Len(sheet[1]) = 6 => \A c \in 1..4 : row[c] = sheet[1][c]
                /\ row[5] = ChosenSum(N)
                /\ row[5] = view.result.total_score
                /\ row[6] = BandTier(row[5])
                /\ row[6] = view.result.tier
                /\ \A i \in 1..N :
                      /\ row[6 + 2 * i - 1] = survey_questions[i].question
                      /\ row[6 + 2 * i] = responses[i].answer
    /\ \A k \in DOMAIN mails :
         /\ Complete
         /\ mails[k] = [name |-> name, email |-> email,
                        score |-> ChosenSum(N), tier |-> BandTier(ChosenSum(N))]

Witness_C13 ==
    /\ Complete
    /\ Len(sheet) = 2 /\ Len(sheet[1]) = 6 /\ Len(sheet[2]) = 6 + 2 * N
    /\ Len(mails) = 1
    /\ sheet[2][5] = 15
    /\ sheet[2][8] = "No strategy at all"
    /\ sheet[2][20] = "We actively use smart tools for decision support"

\* C14: the i-th recorded answer carries the domain and the prompt of the
\* i-th question, one of its option labels and the score the catalog gives
\* that label; an advance adds exactly one answer, the one for the selected
\* label, and raises step by exactly 1; recorded answers never change.
Claim_C14 ==
    /\ [](\A i \in 1..Len(responses) :
            /\ i <= N
            /\ responses[i].domain = survey_questions[i].domain
            /\ responses[i].question = survey_questions[i].question
            /\ responses[i].answer \in CatalogLabels(i)
            /\ responses[i].score = CatalogScore(i, responses[i].answer))
    /\ [][ /\ Len(responses') >= Len(responses)
           /\ SubSeq(responses', 1, Len(responses)) = responses
           /\ (step' # step \/ responses' # responses)
                => /\ ev'.kind = "next"
                   /\ step' = step + 1
                   /\ Len(responses') = Len(responses) + 1
                   /\ responses'[Len(responses')].answer = selected ]_vars

Witness_C14 ==
    /\ ev.kind = "next"
    /\ step = 3 /\ Len(responses) = 3
    /\ responses[1].score = 2 /\ responses[2].score = 4 /\ responses[3].score = 3
    /\ responses[3].answer = "We use a centralised data platform (e.g. data warehouse)"

\* C15: outside Complete the sheet holds no row other than partial-intake
\* rows, no notification has been sent and no Request Workshop press has
\* been handled.
Claim_C15 ==
    ~Complete =>
        /\ \A k \in DOMAIN sheet : Len(sheet[k]) = 6
        /\ mails = << >>
        /\ ev.kind # "request"
        /\ BtnRequest \notin view.widgets

Witness_C15 ==
    /\ Complete
    /\ ev.kind = "request"
    /\ Len(sheet) = 2 /\ Len(sheet[1]) = 6 /\ Len(sheet[2]) = 6 + 2 * N
    /\ Len(mails) = 1

\* the rows of the sheet that a Start Survey execution wrote
PartialRows == SelectSeq(sheet, LAMBDA r : Len(r) = 6)

\* C16: the sheet holds at most one partial-intake row; it is the first row,
\* it is name, email, industry, turnover and two empty cells, and it is
\* written in the execution that sets started, before any answer is
\* recorded; when append_row succeeds in that execution the row is there.
Claim_C16 ==
    /\ []( /\ Len(PartialRows) <= 1
           /\ Len(PartialRows) = 1
                => /\ started
                   /\ Len(sheet[1]) = 6
                   /\ sheet[1] = << name, email, industry, turnover, "", "" >> )
    /\ [][ /\ Len(PartialRows') >= Len(PartialRows)
           /\ (Len(PartialRows') > Len(PartialRows))
                => /\ ~started /\ started'
                   /\ ev'.kind = "start"
                   /\ step' = 0 /\ responses' = << >>
                   /\ sheet = << >>
           /\ (~started /\ started' /\ ev'.storage = "ok")
                => Len(PartialRows') = 1 ]_vars

Witness_C16 ==
    /\ Complete
    /\ Len(sheet) = 3
    /\ Len(PartialRows) = 1
    /\ Len(sheet[1]) = 6 /\ Len(sheet[2]) > 6 /\ Len(sheet[3]) > 6

\* C17: step reaches N only by an advance from N - 1, the session is
\* Complete in that very state with the results execution already queued,
\* and N answers are then recorded; when the respondent keeps pressing Next,
\* a started session reaches Complete and its results page.
Claim_C17 ==
    /\ [][ (step' = N /\ step # N)
              => /\ step = N - 1
                 /\ ev'.kind = "next"
                 /\ Complete'
                 /\ Len(responses') = N
                 /\ rerun' ]_vars
    /\ (started ~> (Complete /\ view.page = "results"))

Witness_C17 ==
    /\ Complete
    /\ ev.kind = "next"
    /\ rerun
    /\ view.page = "question" /\ view.key = N - 1

\* C18: an execution that no respondent action triggered settles: it does
\* not end in st.rerun() and so queue itself again; in particular the intake
\* form with all four fields filled waits for the Start Survey press.
Stated_C18 ==
    ev.kind = "rerun" => ~rerun

\* C19: in a started session the four identity fields are non-empty, no
\* execution changes them (the values are those on the form when Start
\* Survey was pressed), and the follow-up's validation error never shows.
Claim_C19 ==
    /\ [](started => /\ name # "" /\ email # "" /\ industry # "" /\ turnover # ""
                     /\ MsgNoIdentity \notin view.msgs)
    /\ [][ /\ started
              => << name, email, industry, turnover >>' = << name, email, industry, turnover >>
           /\ (~started /\ started')
              => << name, email, industry, turnover >>' = << name, email, industry, turnover >> ]_vars

Witness_C19 ==
    /\ started
    /\ ev.kind = "edit" /\ ev.field = "name" /\ ev.value = ""
    /\ name = "Ann"
    /\ view.page = "question"

\* C20: there are never more notifications than completion rows; a
\* notification is sent only in an execution that has appended its row, and
\* a Request Workshop execution whose append fails does not reach Mailjet.
Claim_C20 ==
    /\ [](Len(mails) <= Len(SelectSeq(sheet, LAMBDA r : Len(r) > 6)))
    /\ [][ /\ (ev'.kind = "request" /\ ev'.storage = "fail")
                => (mails' = mails /\ sheet' = sheet /\ ev'.mail = "none"
                    /\ MsgMailSent \notin view'.msgs /\ MsgMailError \notin view'.msgs)
           /\ (Len(mails') > Len(mails))
                => (Len(sheet') = Len(sheet) + 1 /\ Len(sheet'[Len(sheet')]) > 6)
           /\ (ev'.mail # "none") => ev'.storage = "ok" ]_vars

Witness_C20 ==
    /\ Complete
    /\ ev.kind = "request" /\ ev.storage = "fail" /\ ev.mail = "none"
    /\ Len(sheet) = 2 /\ Len(sheet[1]) > 6 /\ Len(sheet[2]) > 6
    /\ Len(mails) = 1

====
